---- MODULE Spec2Model ----
(***************************************************************************)
(* A state-machine model of src/LSTM.ipynb: the character-level poem       *)
(* dataset (PoemDataset), the greedy sampler (predict) and the training    *)
(* cell that drives the LSTM model.                                        *)
(*                                                                         *)
(* Characters are code points (small naturals; NL is the newline), a       *)
(* Python str or list is a sequence, a Python dict is a function.  The     *)
(* network's numerics belong to the tensor library: a forward call is      *)
(* modelled by its shape contract, by the identity of the recurrent state  *)
(* it returns and by an unconstrained choice of the arg-max code.  A       *)
(* mini-batch is modelled by its number of samples: shuffling changes      *)
(* which samples a batch holds, never how many.                            *)
(***************************************************************************)
EXTENDS Integers, Sequences, FiniteSets

VARIABLES
    fileText,        \* content of the corpus file (sequence of code points)
    sequence_length, \* PoemDataset.sequence_length
    poems,           \* PoemDataset.poems
    char2idx,        \* PoemDataset.char2idx
    idx2char,        \* PoemDataset.idx2char
    data,            \* PoemDataset.data
    item,            \* the last value returned by PoemDataset.__getitem__
    start_text,      \* predict's argument start_text
    prediction_len,  \* predict's argument prediction_len
    numEpochs,       \* the epoch count of the training loop (10 in the source)
    vocab_size,      \* len(dataset.char2idx), the model's output dimension
    params,          \* Model Parameters: the number of optimizer updates applied
    numBatches,      \* len(data_loader)
    epoch,           \* the training loop's variable epoch, -1 while unbound
    batch,           \* the training loop's variable batch (next batch index)
    hidden,          \* the training cell's global variable hidden
    loss,            \* the training cell's global variable loss
    p_hidden,        \* predict's local hidden
    start_input,     \* predict's local start_input (one row of codes)
    predicted_text,  \* predict's local predicted_text
    p_i,             \* iterations of predict's loop completed
    retpc,           \* where control continues when predict returns
    calls,           \* every call of model(...) made so far, with its arguments
    out,             \* what the training cell and predict have printed
    pc,              \* position of the notebook's control
    err              \* the exception that ended the run

dsVars    == <<fileText, sequence_length, poems, char2idx, idx2char, data>>
cfgVars   == <<start_text, prediction_len, numEpochs>>
modelVars == <<vocab_size, params>>
trainVars == <<numBatches, epoch, batch, hidden, loss>>
predVars  == <<p_hidden, start_input, predicted_text, p_i, retpc>>
vars == <<dsVars, item, cfgVars, modelVars, trainVars, predVars, calls, out, pc, err>>

----------------------------------------------------------------------------
(* Bounds of the model *)

\* largest code point of a corpus character (code points are 1..MaxChar)
MaxChar == 2
\* longest corpus file of the dataset specification, newlines included
MaxFileLen == 5
\* largest sequence_length a PoemDataset is built with
MaxSeqLen == 2
\* longest string the encode/decode round trip is tried on
MaxStrLen == 3
\* longest corpus file of the sampler specification
MaxPredFileLen == 3
\* longest seed string and largest continuation length given to predict
MaxSeedLen == 2
MaxPredLen == 3
\* the training specification: longest free-form corpus file, longest
\* single-line corpus, largest sequence_length, largest epoch count, longest
\* seed and largest continuation length of the epoch-end sample
MaxTrainFileLen == 2
MaxLineLen == 66
MaxTrainSeqLen == 1
MaxEpochs == 2
MaxTrainSeedLen == 1
MaxTrainPredLen == 1

(* Constants of the program *)

\* DataLoader(dataset, batch_size=32, ...) and model.init_hidden(32)
BATCH_SIZE == 32
\* PoemDataset.__init__'s default sequence_length
DEFAULT_SEQUENCE_LENGTH == 50

\* the newline character, below every corpus character
NL == 0

Min(a, b) == IF a <= b THEN a ELSE b
Max(a, b) == IF a >= b THEN a ELSE b

\* all sequences over S of length at most n
SeqUpTo(S, n) == UNION {[1..k -> S] : k \in 0..n}

Alphabet == 1..MaxChar
Files == SeqUpTo(Alphabet \cup {NL}, MaxFileLen)

----------------------------------------------------------------------------
(* Python built-ins used by the source *)

\* str.split('\n'): the pieces between the separators, at least one piece
RECURSIVE Split(_)
Split(t) ==
    LET idx == {i \in 1..Len(t) : t[i] = NL}
    IN  IF idx = {} THEN <<t>>
        ELSE LET i == CHOOSE j \in idx : \A k \in idx : j <= k
             IN  <<SubSeq(t, 1, i - 1)>> \o Split(SubSeq(t, i + 1, Len(t)))

\* ''.join(list of strings)
RECURSIVE Join(_)
Join(ss) == IF ss = <<>> THEN <<>> ELSE Head(ss) \o Join(Tail(ss))

\* set(text)
SetOf(s) == {s[i] : i \in 1..Len(s)}

\* sorted(list(S)): ascending code point order
RECURSIVE Sorted(_)
Sorted(S) ==
    IF S = {} THEN <<>>
    ELSE LET m == CHOOSE x \in S : \A y \in S : x <= y
         IN  <<m>> \o Sorted(S \ {m})

\* s[lo:hi] for 0 <= lo, with Python's clamping of hi
PySlice(s, lo, hi) == SubSeq(s, lo + 1, Min(hi, Len(s)))

\* {ch: i for i, ch in enumerate(chars)}: a later pair overwrites an earlier one
DictCharToIdx(chars) ==
    [ch \in SetOf(chars) |->
        CHOOSE i \in 0..(Len(chars) - 1) :
            /\ chars[i + 1] = ch
            /\ \A j \in 0..(Len(chars) - 1) : chars[j + 1] = ch => j <= i]

\* {i: ch for i, ch in enumerate(chars)}
DictIdxToChar(chars) == [i \in 0..(Len(chars) - 1) |-> chars[i + 1]]

----------------------------------------------------------------------------
(* PoemDataset *)

NoError == [type |-> "", at |-> ""]
Raised(type, at) == [type |-> type, at |-> at]

\* chars = sorted(list(set(text)))
VocabChars_dup(text) == text
VocabChars(text) == Sorted(SetOf(text))

\* whether [d[ch] for ch in s] raises no KeyError
CanEncode(d, s) == \A i \in 1..Len(s) : s[i] \in DOMAIN d

\* [d[ch] for ch in s] when no lookup raises
Encode(d, s) == [i \in 1..Len(s) |-> d[s[i]]]

\* [d[ch] for ch in s]: the codes, or ok = FALSE for the KeyError of d[ch]
LookupAll_get(d, s) ==
    [ok |-> TRUE,
     codes |-> [i \in 1..Len(s) |-> IF s[i] \in DOMAIN d THEN d[s[i]] ELSE 0]]
LookupAll(d, s) ==
    [ok |-> CanEncode(d, s),
     codes |-> IF CanEncode(d, s) THEN Encode(d, s) ELSE <<>>]

\* the range of the inner loop of preprocess: range(0, len(encoded_poem) - L)
NumWindows_incl(n, L) == n - L + 1
NumWindows(n, L) == n - L

\* the upper end of the slice encoded_poem[i:i + L + 1]
WindowHi(i, L) == i + L + 1

\* the windows one encoded poem appends to self.data, from start index i on
RECURSIVE WindowsFrom(_, _, _)
WindowsFrom(encoded, L, i) ==
    IF i >= NumWindows(Len(encoded), L) THEN <<>>
    ELSE <<PySlice(encoded, i, WindowHi(i, L))>> \o WindowsFrom(encoded, L, i + 1)

\* the outer loop of preprocess over self.poems with the vocabulary d:
\* the data appended, or ok = FALSE when a lookup raised KeyError
RECURSIVE PreprocessData(_, _, _)
PreprocessData(ps, d, L) ==
    IF ps = <<>> THEN [ok |-> TRUE, data |-> <<>>]
    ELSE LET enc  == LookupAll(d, Head(ps))
             rest == PreprocessData(Tail(ps), d, L)
         IN  IF ~enc.ok THEN [ok |-> FALSE, data |-> <<>>]
             ELSE [ok |-> rest.ok, data |-> WindowsFrom(enc.codes, L, 0) \o rest.data]

NoItem == [index |-> -1, sequence |-> <<>>, target |-> <<>>]

\* dataset = PoemDataset(file_path, sequence_length): __init__ and preprocess
DatasetInit ==
    /\ pc = "new"
    /\ LET ps    == Split(fileText)
           chars == VocabChars(Join(ps))
           c2i   == DictCharToIdx(chars)
           i2c   == DictIdxToChar(chars)
           built == PreprocessData(ps, c2i, sequence_length)
       IN  /\ poems' = ps
           /\ char2idx' = c2i
           /\ idx2char' = i2c
           /\ data' = built.data
           /\ pc' = IF built.ok THEN "built" ELSE "error"
           /\ err' = IF built.ok THEN NoError ELSE Raised("KeyError", "preprocess")
    /\ UNCHANGED <<fileText, sequence_length, item, cfgVars, modelVars, trainVars,
                   predVars, calls, out>>

\* len(dataset)
DatasetLen == Len(data)

\* self.data[index][:-1] and self.data[index][1:]
ItemSequence(w) == PySlice(w, 0, Len(w) - 1)
ItemTarget(w) == PySlice(w, 1, Len(w))

\* dataset[index] for a valid index
GetItem ==
    /\ pc = "built"
    /\ \E index \in 0..(DatasetLen - 1) :
          item' = [index    |-> index,
                   sequence |-> ItemSequence(data[index + 1]),
                   target   |-> ItemTarget(data[index + 1])]
    /\ UNCHANGED <<dsVars, cfgVars, modelVars, trainVars, predVars, calls, out, pc, err>>

----------------------------------------------------------------------------
(* LSTMModel *)

\* A recurrent state (h, c): its batch dimension, the forward call that
\* returned it (id 0: the zeros of init_hidden) and whether it is cut from
\* the gradient history.
NoHidden == [batch |-> 0, id |-> -1, detached |-> TRUE]

\* model.init_hidden(batch_size)
init_hidden(batch_size) == [batch |-> batch_size, id |-> 0, detached |-> TRUE]

\* tuple([each.data for each in hidden])
Detach(h) == [h EXCEPT !.detached = TRUE]

\* whether model(x, hidden) raises for an input of n rows of seqLen codes:
\* nn.LSTM rejects a state whose batch dimension is not n and a sequence
\* of length 0
ForwardRaises(n, seqLen, h) == h.batch # n \/ seqLen = 0

\* the state returned by the k-th call of model(...), for an input of n rows
Returned(n, k) == [batch |-> n, id |-> k, detached |-> FALSE]

NoLoss == [epoch |-> -1, batch |-> -1]

\* vocab_size = len(dataset.char2idx); model = LSTMModel(vocab_size)
ModelSetup ==
    /\ vocab_size' = Cardinality(DOMAIN char2idx)
    /\ params' = 0

\* the model is instantiated and predict(model, start_text, prediction_len)
\* is called from the top level
InstantiateModel ==
    /\ pc = "built"
    /\ ModelSetup
    /\ pc' = "predict"
    /\ retpc' = "done"
    /\ UNCHANGED <<dsVars, item, cfgVars, trainVars, p_hidden, start_input,
                   predicted_text, p_i, calls, out, err>>

----------------------------------------------------------------------------
(* predict *)

\* for _ in range(prediction_len): whether iteration i runs
LoopContinues_incl(i, n) == i <= n
LoopContinues(i, n) == i < n

\* start_input = predicted_index.unsqueeze(0)
NextInput_grow(input, code) == input \o <<code>>
NextInput(input, code) == <<code>>

\* hidden = model.init_hidden(1); start_input = tensor([[char2idx[s] ...]]);
\* predicted_text = start_text
PredictCall ==
    /\ pc = "predict"
    /\ LET enc == LookupAll(char2idx, start_text)
       IN  /\ p_hidden' = init_hidden(1)
           /\ IF enc.ok
              THEN /\ start_input' = enc.codes
                   /\ predicted_text' = start_text
                   /\ pc' = "predict_loop"
                   /\ err' = err
              ELSE /\ start_input' = <<>>
                   /\ predicted_text' = <<>>
                   /\ pc' = "error"
                   /\ err' = Raised("KeyError", "predict")
    /\ p_i' = 0
    /\ UNCHANGED <<dsVars, item, cfgVars, modelVars, trainVars, retpc, calls, out>>

\* one iteration of predict's loop: the forward call, the arg-max at the
\* last position, the decoding and the next input
PredictStep ==
    /\ pc = "predict_loop"
    /\ LoopContinues(p_i, prediction_len)
    /\ IF ForwardRaises(1, Len(start_input), p_hidden)
       THEN /\ calls' = Append(calls, [who |-> "predict", epoch |-> epoch, batch |-> p_i,
                                       n |-> 1, input |-> start_input,
                                       hidden |-> p_hidden, argmax |-> -1])
            /\ pc' = "error"
            /\ err' = Raised("RuntimeError", "predict")
            /\ UNCHANGED <<p_hidden, start_input, predicted_text, p_i>>
       ELSE \E predicted_index \in 0..(vocab_size - 1) :
            /\ calls' = Append(calls, [who |-> "predict", epoch |-> epoch, batch |-> p_i,
                                       n |-> 1, input |-> start_input,
                                       hidden |-> p_hidden, argmax |-> predicted_index])
            /\ p_hidden' = Returned(1, Len(calls) + 1)
            /\ IF predicted_index \in DOMAIN idx2char
               THEN /\ predicted_text' = predicted_text \o <<idx2char[predicted_index]>>
                    /\ start_input' = NextInput(start_input, predicted_index)
                    /\ p_i' = p_i + 1
                    /\ UNCHANGED <<pc, err>>
               ELSE /\ pc' = "error"
                    /\ err' = Raised("KeyError", "predict")
                    /\ UNCHANGED <<predicted_text, start_input, p_i>>
    /\ UNCHANGED <<dsVars, item, cfgVars, modelVars, trainVars, retpc, out>>

\* print(predicted_text) and the return to the caller
PredictPrint ==
    /\ pc = "predict_loop"
    /\ ~LoopContinues(p_i, prediction_len)
    /\ out' = Append(out, [kind |-> "sample", epoch |-> epoch, loss |-> NoLoss,
                           text |-> predicted_text])
    /\ pc' = retpc
    /\ p_hidden' = NoHidden
    /\ start_input' = <<>>
    /\ predicted_text' = <<>>
    /\ p_i' = 0
    /\ UNCHANGED <<dsVars, item, cfgVars, modelVars, trainVars, retpc, calls, err>>

----------------------------------------------------------------------------
(* the training cell *)

\* len(data_loader) for DataLoader(dataset, batch_size=32): drop_last is False
NumBatches(D) == (D + BATCH_SIZE - 1) \div BATCH_SIZE

\* the number of samples of mini-batch j (0-based) of a dataset of D samples
BatchLen(D, j) == Min(BATCH_SIZE, D - BATCH_SIZE * j)

\* hidden = model.init_hidden(32) at the top of an epoch
EpochInitialHidden_carry(h) == IF h = NoHidden THEN init_hidden(BATCH_SIZE) ELSE h
EpochInitialHidden(h) == init_hidden(BATCH_SIZE)

\* data_loader, model, loss_function and optimizer are created.  With an
\* empty dataset, shuffle=True makes the DataLoader's RandomSampler raise
\* ValueError in the library versions that reject num_samples = 0; the
\* others build a loader of no batch.
TrainSetup ==
    /\ pc = "built"
    /\ \/ /\ ModelSetup
          /\ numBatches' = NumBatches(DatasetLen)
          /\ pc' = "epoch"
          /\ err' = err
       \/ /\ DatasetLen = 0
          /\ pc' = "error"
          /\ err' = Raised("ValueError", "loader")
          /\ UNCHANGED <<modelVars, numBatches>>
    /\ UNCHANGED <<dsVars, item, cfgVars, epoch, batch, hidden, loss, predVars,
                   calls, out>>

\* for epoch in range(numEpochs): the next epoch starts, or the loop ends
EpochStart ==
    /\ pc = "epoch"
    /\ IF epoch + 1 < numEpochs
       THEN /\ epoch' = epoch + 1
            /\ hidden' = EpochInitialHidden(hidden)
            /\ batch' = 0
            /\ pc' = "batches"
       ELSE /\ pc' = "done"
            /\ UNCHANGED <<epoch, hidden, batch>>
    /\ UNCHANGED <<dsVars, item, cfgVars, modelVars, numBatches, loss, predVars,
                   calls, out, err>>

\* one iteration of the loop over data_loader: detach, zero_grad, forward,
\* loss, backward, optimizer.step()
TrainStep ==
    /\ pc = "batches"
    /\ batch < numBatches
    /\ LET n  == BatchLen(DatasetLen, batch)
           h  == Detach(hidden)
       IN  /\ calls' = Append(calls, [who |-> "train", epoch |-> epoch, batch |-> batch,
                                      n |-> n, input |-> <<>>, hidden |-> h,
                                      argmax |-> -1])
           /\ IF ForwardRaises(n, sequence_length, h)
              THEN /\ hidden' = h
                   /\ pc' = "error"
                   /\ err' = Raised("RuntimeError", "train")
                   /\ UNCHANGED <<loss, params, batch>>
              ELSE /\ hidden' = Returned(n, Len(calls) + 1)
                   /\ loss' = [epoch |-> epoch, batch |-> batch]
                   /\ params' = params + 1
                   /\ batch' = batch + 1
                   /\ UNCHANGED <<pc, err>>
    /\ UNCHANGED <<dsVars, item, cfgVars, vocab_size, numBatches, epoch, predVars, out>>

\* print(f'Epoch: {epoch+1}, Loss: {loss.item()}') and the call of predict
EpochReport ==
    /\ pc = "batches"
    /\ batch >= numBatches
    /\ IF loss = NoLoss
       THEN /\ pc' = "error"
            /\ err' = Raised("NameError", "report")
            /\ UNCHANGED <<out, retpc>>
       ELSE /\ out' = Append(out, [kind |-> "loss", epoch |-> epoch, loss |-> loss,
                                   text |-> <<>>])
            /\ pc' = "predict"
            /\ retpc' = "epoch"
            /\ err' = err
    /\ UNCHANGED <<dsVars, item, cfgVars, modelVars, trainVars, p_hidden, start_input,
                   predicted_text, p_i, calls>>

----------------------------------------------------------------------------
(* Specifications *)

InitCommon ==
    /\ poems = <<>>
    /\ char2idx = <<>>
    /\ idx2char = <<>>
    /\ data = <<>>
    /\ item = NoItem
    /\ vocab_size = 0
    /\ params = 0
    /\ numBatches = 0
    /\ epoch = -1
    /\ batch = 0
    /\ hidden = NoHidden
    /\ loss = NoLoss
    /\ p_hidden = NoHidden
    /\ start_input = <<>>
    /\ predicted_text = <<>>
    /\ p_i = 0
    /\ retpc = "done"
    /\ calls = <<>>
    /\ out = <<>>
    /\ pc = "new"
    /\ err = NoError

\* PoemDataset alone: construction from any small file, then __getitem__
InitDataset ==
    /\ fileText \in Files
    /\ sequence_length \in 0..MaxSeqLen
    /\ start_text = <<>>
    /\ prediction_len = 0
    /\ numEpochs = 0
    /\ InitCommon

NextDataset == DatasetInit \/ GetItem

SpecDataset == InitDataset /\ [][NextDataset]_vars

\* predict called from the top level on a freshly instantiated model
Seeds == SeqUpTo(Alphabet, MaxSeedLen)

InitPredict ==
    /\ fileText \in SeqUpTo(Alphabet \cup {NL}, MaxPredFileLen)
    /\ sequence_length = DEFAULT_SEQUENCE_LENGTH
    /\ start_text \in Seeds
    /\ prediction_len \in 0..MaxPredLen
    /\ numEpochs = 0
    /\ InitCommon

NextPredict == DatasetInit \/ InstantiateModel \/ PredictCall \/ PredictStep \/ PredictPrint

SpecPredict == InitPredict /\ [][NextPredict]_vars

\* the training cell: the corpus is any small file or one long line that
\* cycles through k characters
CycleLine(n, k) == [i \in 1..n |-> ((i - 1) % k) + 1]

TrainFiles ==
    SeqUpTo(Alphabet \cup {NL}, MaxTrainFileLen)
        \cup {CycleLine(n, k) : n \in 0..MaxLineLen, k \in Alphabet}

InitTrain ==
    /\ fileText \in TrainFiles
    /\ sequence_length \in 1..MaxTrainSeqLen
    /\ start_text \in SeqUpTo(Alphabet, MaxTrainSeedLen)
    /\ prediction_len \in 0..MaxTrainPredLen
    /\ numEpochs \in 0..MaxEpochs
    /\ InitCommon

NextTrain ==
    \/ DatasetInit
    \/ TrainSetup
    \/ EpochStart
    \/ TrainStep
    \/ EpochReport
    \/ PredictCall
    \/ PredictStep
    \/ PredictPrint

SpecTrain == InitTrain /\ [][NextTrain]_vars

----------------------------------------------------------------------------
(* Properties of PoemDataset, checked under SpecDataset *)

\* the distinct characters of the corpus, read off the file itself
CorpusChars(text) == SetOf(text) \ {NL}

\* C1: once the dataset is built, char2idx and idx2char are inverse
\* bijections between the distinct characters of the corpus and the dense
\* codes 0..V-1, and decoding the encoding of any in-vocabulary string
\* gives the string back.
C1_VocabularyBijection ==
    pc = "built" =>
        LET V == Cardinality(CorpusChars(fileText))
        IN  /\ DOMAIN char2idx = CorpusChars(fileText)
            /\ DOMAIN idx2char = 0..(V - 1)
            /\ \A ch \in DOMAIN char2idx :
                  /\ char2idx[ch] \in DOMAIN idx2char
                  /\ idx2char[char2idx[ch]] = ch
            /\ \A i \in DOMAIN idx2char :
                  /\ idx2char[i] \in DOMAIN char2idx
                  /\ char2idx[idx2char[i]] = i
            /\ \A s \in SeqUpTo(CorpusChars(fileText), MaxStrLen) :
                  LET codes == [i \in 1..Len(s) |-> char2idx[s[i]]]
                  IN  [i \in 1..Len(codes) |-> idx2char[codes[i]]] = s

\* a corpus of two distinct characters, one of them repeated, whose codes
\* differ from the code points
C1_Witness ==
    /\ pc = "built"
    /\ Cardinality(DOMAIN char2idx) = 2
    /\ Len(Join(poems)) > 2
    /\ Len(poems) >= 2

\* the number of samples line p owes, and the samples owed by lines 1..p
LineSamples(p) == Max(0, Len(poems[p]) - sequence_length)

RECURSIVE SamplesBefore(_)
SamplesBefore(p) == IF p = 0 THEN 0 ELSE SamplesBefore(p - 1) + LineSamples(p)

\* C2: len(dataset) is the sum over the lines of max(0, N - L); the sample
\* at index k is window number k - (samples of the earlier lines) of its
\* line; input and target have length L, the target is the input shifted
\* by one and ends with the code of the character that follows the window.
C2_WindowedSamples ==
    pc = "built" =>
        /\ DatasetLen = SamplesBefore(Len(poems))
        /\ item # NoItem =>
              LET L    == sequence_length
                  k    == item.index
                  p    == CHOOSE q \in 1..Len(poems) :
                              SamplesBefore(q - 1) <= k /\ k < SamplesBefore(q)
                  off  == k - SamplesBefore(p - 1)
                  line == poems[p]
              IN  /\ Len(item.sequence) = L
                  /\ Len(item.target) = L
                  /\ \A i \in 1..L : item.sequence[i] = char2idx[line[off + i]]
                  /\ \A i \in 1..(L - 1) : item.target[i] = item.sequence[i + 1]
                  /\ L >= 1 => item.target[L] = char2idx[line[off + L + 1]]

\* a sample taken from a line after the first, both lines giving samples
C2_Witness ==
    /\ pc = "built"
    /\ sequence_length >= 1
    /\ Len(poems) >= 2
    /\ SamplesBefore(1) >= 1
    /\ item.index >= SamplesBefore(1)

\* C6: building the dataset from a corpus without characters ends in an
\* error; it never completes with an empty vocabulary and no sample.
C6_EmptyCorpusRejected ==
    (pc # "new" /\ CorpusChars(fileText) = {}) => pc = "error"

----------------------------------------------------------------------------
(* Properties of predict, checked under SpecPredict *)

InVocabulary(s) == \A i \in 1..Len(s) : s[i] \in CorpusChars(fileText)

IsPrefix(s, t) == Len(s) <= Len(t) /\ SubSeq(t, 1, Len(s)) = s

\* what C3 promises of a call of predict
PredictRunsToLength ==
    /\ pc # "error"
    /\ pc = "predict_loop" =>
          /\ ENABLED (PredictStep \/ PredictPrint)
          /\ p_i <= prediction_len
          /\ Len(calls) = p_i
          /\ IsPrefix(start_text, predicted_text)
          /\ Len(predicted_text) = Len(start_text) + p_i
    /\ pc = "done" =>
          /\ Len(out) = 1
          /\ IsPrefix(start_text, out[1].text)
          /\ Len(out[1].text) = Len(start_text) + prediction_len
          /\ Len(calls) = prediction_len
          /\ prediction_len = 0 => out[1].text = start_text

\* C3 as stated: for every in-vocabulary seed and every N >= 0, predict
\* runs exactly N generation steps and prints the seed followed by exactly
\* N characters; with N = 0 it prints the seed and never calls the model.
C3_AnySeed ==
    InVocabulary(start_text) => PredictRunsToLength

\* C3 as amended: the same for every in-vocabulary seed that is not empty,
\* and for the empty seed when N = 0.
C3_NonEmptySeed ==
    (InVocabulary(start_text) /\ (start_text # <<>> \/ prediction_len = 0))
        => PredictRunsToLength

\* a seed of two characters continued by at least two generated ones
C3_Witness ==
    /\ pc = "done"
    /\ Len(start_text) = 2
    /\ prediction_len >= 2
    /\ Len(calls) = prediction_len
    /\ Len(out[1].text) = 2 + prediction_len

\* C8: the first forward call of predict gets the whole encoded seed and
\* the zero state of batch size 1; call k >= 2 gets only the code selected
\* by call k-1 and the state call k-1 returned; the text is the seed
\* followed by the decoding of the selected codes.
C8_FeedsLastCodeOnly ==
    /\ \A k \in 1..Len(calls) :
          /\ calls[k].who = "predict"
          /\ k = 1 =>
                /\ calls[k].input = [i \in 1..Len(start_text) |-> char2idx[start_text[i]]]
                /\ calls[k].hidden = [batch |-> 1, id |-> 0, detached |-> TRUE]
          /\ k >= 2 =>
                /\ calls[k].input = <<calls[k - 1].argmax>>
                /\ calls[k].hidden.id = k - 1
                /\ calls[k].hidden.batch = 1
    /\ pc = "predict_loop" =>
          predicted_text =
              start_text \o [k \in 1..Len(calls) |-> idx2char[calls[k].argmax]]
    /\ pc = "done" =>
          out[1].text =
              start_text \o [k \in 1..Len(calls) |-> idx2char[calls[k].argmax]]

\* three generation steps from a seed of two characters
C8_Witness ==
    /\ pc = "done"
    /\ Len(start_text) = 2
    /\ Len(calls) >= 3
    /\ calls[1].input # <<calls[1].argmax>>
    /\ calls[3].input = <<calls[2].argmax>>

----------------------------------------------------------------------------
(* Properties of the training cell, checked under SpecTrain *)

\* C4: every forward call of the training loop gets a recurrent state the
\* batch dimension of which is the number of samples of its mini-batch, so
\* no training step ends in a shape mismatch.
C4_StateMatchesBatch ==
    /\ \A k \in 1..Len(calls) :
          calls[k].who = "train" => calls[k].hidden.batch = calls[k].n
    /\ err # Raised("RuntimeError", "train")

\* the training loop has ended, normally or by an exception
TrainingEnded ==
    \/ pc = "done"
    \/ pc = "error" /\ err.at \in {"train", "report", "predict"}

\* C5: a run of E epochs over K mini-batches executes exactly E*K optimizer
\* steps (with E = 0 none, and no exception), the only changes of the Model
\* Parameters.
C5_OptimizerSteps ==
    /\ TrainingEnded => params = numEpochs * numBatches
    /\ numEpochs = 0 => (params = 0 /\ ~(pc = "error" /\ TrainingEnded))

\* the part of C5 that holds of every step: the parameters change only in
\* a training step, by one optimizer update
C5_ParamsFrame ==
    [][params' # params => (pc = "batches" /\ pc' = "batches" /\ params' = params + 1
                            /\ batch' = batch + 1)]_vars

\* the part of C5 that holds of a run that reaches the end of the loop, and
\* of the loop with epoch count 0
C5_CompletedRun ==
    /\ pc = "done" => params = numEpochs * numBatches
    /\ (numEpochs = 0 /\ pc \notin {"new", "built"} /\ err.at # "loader")
          => (pc \in {"epoch", "done"} /\ params = 0 /\ calls = <<>>)

\* C7, states: encoding the corpus lines never raises a lookup error, a
\* lookup error of predict comes from a seed with an out-of-vocabulary
\* character, and an exception is the end of the run.
C7_LookupErrorStates ==
    /\ err # Raised("KeyError", "preprocess")
    /\ err = Raised("KeyError", "predict") => ~InVocabulary(start_text)
    /\ pc = "error" => ~ENABLED NextTrain

\* C7, steps: predict called with an out-of-vocabulary seed raises the
\* lookup error at once, with no forward call and nothing printed.
C7_LookupErrorStep ==
    (pc = "predict" /\ ~InVocabulary(start_text)) =>
        /\ pc' = "error"
        /\ err' = Raised("KeyError", "predict")
        /\ calls' = calls
        /\ out' = out
        /\ predicted_text' = <<>>
        /\ params' = params

\* C7: a seed with an out-of-vocabulary character makes predict fail with
\* a lookup error before any forward call and any output, the error ends
\* the training run, and training-time encoding never raises one.
C7_SeedLookupError ==
    []C7_LookupErrorStates /\ [][C7_LookupErrorStep]_vars

\* the epoch-end sample of the first epoch aborts the run after its
\* training steps
C7_Witness ==
    /\ pc = "error"
    /\ err = Raised("KeyError", "predict")
    /\ epoch = 0
    /\ params >= 1
    /\ numEpochs >= 2
    /\ Len(out) = 1

\* C9, states: the first forward call of every epoch gets the zero state,
\* every later one the detached state the preceding call of the same
\* epoch returned.
C9_CarriedStateCalls ==
    \A k \in 1..Len(calls) :
        calls[k].who = "train" =>
            /\ calls[k].batch = 0 =>
                  calls[k].hidden = [batch |-> BATCH_SIZE, id |-> 0, detached |-> TRUE]
            /\ calls[k].batch > 0 =>
                  /\ k >= 2
                  /\ calls[k - 1].who = "train"
                  /\ calls[k - 1].epoch = calls[k].epoch
                  /\ calls[k - 1].batch = calls[k].batch - 1
                  /\ calls[k].hidden =
                        [batch |-> calls[k - 1].n, id |-> k - 1, detached |-> TRUE]

\* C9, steps: predict leaves the training loop's state alone.
C9_SamplerKeepsState ==
    pc \in {"predict", "predict_loop"} => hidden' = hidden

\* C9: zero state at the first mini-batch of every epoch, the detached
\* state of the preceding mini-batch afterwards, nothing carried over an
\* epoch boundary, and the sampler's state is its own.
C9_CarriedState ==
    []C9_CarriedStateCalls /\ [][C9_SamplerKeepsState]_vars

\* the second mini-batch of the second epoch, after a sample was printed
C9_Witness ==
    /\ \E k \in 1..Len(calls) :
          calls[k].who = "train" /\ calls[k].epoch = 1 /\ calls[k].batch = 1
    /\ \E k \in 1..Len(calls) : calls[k].who = "predict"
    /\ \E j \in 1..Len(out) : out[j].kind = "sample"

\* C10: when all mini-batches of an epoch are processed, the loop reports
\* the loss of the epoch's final mini-batch and goes on to the sample, also
\* for a dataset of no sample.
C10_EpochEndReport ==
    [][(pc = "batches" /\ batch >= numBatches) =>
          /\ out' = Append(out, [kind |-> "loss", epoch |-> epoch,
                                 loss |-> [epoch |-> epoch, batch |-> numBatches - 1],
                                 text |-> <<>>])
          /\ pc' = "predict"]_vars

====
